---- MODULE Spec2Model ----
(***************************************************************************)
(* State-machine model of the data collectors of 2K_Program:               *)
(*   - collect_and_save_stock_ohlcv_alphavantage (table stock_ohlcv, CSV)  *)
(*   - YfinanceCollector (stock_prices, dividends, option_chains)          *)
(*   - collect_fred_series (table fred_series_raw)                         *)
(*   - collect_and_save_financials_alphavantage (request/sleep schedule)   *)
(*   - get_api_response and collect_world_bank_data                        *)
(*   - NewsProcessor.preprocess_articles                                   *)
(*   - black_scholes_merton_enhanced, load_config                          *)
(*   - the api collector's collect_and_save_financials_alphavantage        *)
(*   - NewsAnalyzer.run_analysis                                           *)
(* Each collector is a standalone script, so each has its own              *)
(* specification over its own variables; the others stay idle.             *)
(***************************************************************************)
EXTENDS Integers, Sequences, FiniteSets, TLC

VARIABLES
    stock_ohlcv,      \* table stock_ohlcv: rows <<symbol, timestamp, values>> with their number of copies
    written_csv,      \* the {symbol}_ohlcv.csv the last call wrote: <<symbol, rows>>, or NoFile
    last_ohlcv,       \* what the last call of the OHLCV collector did
    committed_ohlcv   \* history: per key, the values last committed for it

ohlcvVars == <<stock_ohlcv, written_csv, last_ohlcv, committed_ohlcv>>

VARIABLES
    yf_pc,            \* collect_all_data: "idle", the step about to run, "done"
    yf_symbols,       \* its argument, the list of symbols
    yf_i,             \* the index of the symbol of the current iteration
    yf_log,           \* history: the steps run so far, <<index, step, outcome>>
    stock_prices,     \* table stock_prices: (time, symbol) -> price
    dividends,        \* table dividends: (symbol, date) -> amount
    option_chains,    \* table option_chains: (time, symbol, expiration, strike, type) -> iv
    yf_last           \* history: the last row a step sent to its table

yfVars == <<yf_pc, yf_symbols, yf_i, yf_log, stock_prices, dividends, option_chains, yf_last>>

VARIABLES
    fred_series_raw,  \* table fred_series_raw: (series_id, date) -> value
    fred_last         \* history: what the last call of collect_fred_series did

fredVars == <<fred_series_raw, fred_last>>

VARIABLES
    fin_pc,           \* collect_and_save_financials_alphavantage: where it stands
    fin_idx,          \* the index of the statement type of the current iteration
    fin_conn,         \* whether get_db_connection gave a connection
    fin_trace,        \* history: the requests and sleeps so far
    fin_raw,          \* financial_statements_raw: statement type -> reports
    financials,       \* table financials: the keys (symbol, report_date, period) stored
    fin_csv           \* the rows of {symbol}_financials.csv, or NoFile

finVars == <<fin_pc, fin_idx, fin_conn, fin_trace, fin_raw, financials, fin_csv>>

VARIABLES
    api_pc,           \* get_api_response: "idle", "attempt", "sleep", "returned"
    api_retries,      \* its arguments retries and delay
    api_delay,
    api_attempt,      \* the loop variable attempt
    api_trace,        \* history: the requests and sleeps so far
    api_result        \* the value returned

apiVars == <<api_pc, api_retries, api_delay, api_attempt, api_trace, api_result>>

VARIABLES
    wb_pc,            \* collect_world_bank_data: "idle", "indicator", "sleep", "returned"
    wb_requested,     \* its argument countries_to_fetch
    wb_response,      \* what the country-list request gave
    wb_countries,     \* the dict countries, in its order
    wb_indicators,    \* the dict current_indicators, in its order
    wb_c,             \* position of the outer loop
    wb_i,             \* position of the inner loop
    wb_calls,         \* history: the calls of fetch_and_save_indicator_data
    wb_succeeded,     \* succeeded_data_count
    wb_files,         \* the (country, indicator) files written
    wb_result         \* the value returned

wbVars == <<wb_pc, wb_requested, wb_response, wb_countries, wb_indicators,
            wb_c, wb_i, wb_calls, wb_succeeded, wb_files, wb_result>>

VARIABLES
    news_pc,          \* NewsProcessor: "new", "loaded", "processed"
    articles,         \* self.articles
    processed_list    \* what preprocess_articles returned

newsVars == <<news_pc, articles, processed_list>>

VARIABLES
    bsm_pc,           \* black_scholes_merton_enhanced: "idle", "returned"
    bsm_args,         \* <<S, K, T, sigma, r, q, option_type>> of the call
    bsm_result        \* what the call returned or raised

bsmVars == <<bsm_pc, bsm_args, bsm_result>>

VARIABLES
    cfg_pc,           \* load_config: "idle", "done"
    raw_config,       \* <<database entries, api_keys entries>> of config.yaml
    environ,          \* os.environ: variable name -> value ("unset" when absent)
    cfg_result        \* <<"ok" or the exception, database section, api_keys section>>

cfgVars == <<cfg_pc, raw_config, environ, cfg_result>>

VARIABLES
    apifin_pc,        \* api collector's financials: "idle", "request", "sleep", "done"
    apifin_idx,       \* position in urls
    apifin_trace,     \* history: the requests and sleeps so far
    apifin_saved      \* the statement types written to the database

apifinVars == <<apifin_pc, apifin_idx, apifin_trace, apifin_saved>>

VARIABLES
    na_pc,            \* NewsAnalyzer.run_analysis: "idle", "augment", "returned"
    na_rows,          \* the ticker_sentiment entries of self.df, exploded
    all_ticker_data,  \* ticker -> [mentions, sentiment_scores_list, sentiment_distribution]
    na_targets,       \* the keys of top_ticker_sentiment_results, in dict order
    na_i,             \* position of the augmentation loop
    na_result,        \* top_ticker_sentiment_results
    na_news,          \* ticker -> the articles the LLM step returned for it
    na_error          \* the exception that ended the run, "" when none

naVars == <<na_pc, na_rows, all_ticker_data, na_targets, na_i, na_result, na_news,
            na_error>>

vars == <<ohlcvVars, yfVars, fredVars, finVars, apiVars, wbVars, newsVars, bsmVars,
          cfgVars, apifinVars, naVars>>

NotOhlcv ==
    <<yfVars, fredVars, finVars, apiVars, wbVars, newsVars, bsmVars, cfgVars, apifinVars, naVars>>
NotYf ==
    <<ohlcvVars, fredVars, finVars, apiVars, wbVars, newsVars, bsmVars, cfgVars, apifinVars, naVars>>
NotFred ==
    <<ohlcvVars, yfVars, finVars, apiVars, wbVars, newsVars, bsmVars, cfgVars, apifinVars, naVars>>
NotFin ==
    <<ohlcvVars, yfVars, fredVars, apiVars, wbVars, newsVars, bsmVars, cfgVars, apifinVars, naVars>>
NotApi ==
    <<ohlcvVars, yfVars, fredVars, finVars, wbVars, newsVars, bsmVars, cfgVars, apifinVars, naVars>>
NotWb ==
    <<ohlcvVars, yfVars, fredVars, finVars, apiVars, newsVars, bsmVars, cfgVars, apifinVars, naVars>>
NotNews ==
    <<ohlcvVars, yfVars, fredVars, finVars, apiVars, wbVars, bsmVars, cfgVars, apifinVars, naVars>>
NotBsm ==
    <<ohlcvVars, yfVars, fredVars, finVars, apiVars, wbVars, newsVars, cfgVars, apifinVars, naVars>>
NotCfg ==
    <<ohlcvVars, yfVars, fredVars, finVars, apiVars, wbVars, newsVars, bsmVars, apifinVars, naVars>>
NotApifin ==
    <<ohlcvVars, yfVars, fredVars, finVars, apiVars, wbVars, newsVars, bsmVars, cfgVars, naVars>>
NotNa ==
    <<ohlcvVars, yfVars, fredVars, finVars, apiVars, wbVars, newsVars, bsmVars, cfgVars, apifinVars>>

----------------------------------------------------------------------------
(* Bounds and value sets                                                   *)

\* the symbols the collector is run for
Symbols == {"AAPL"}

\* a row of another symbol, stored by an earlier run of the script
StoredRow == <<"MSFT", 2, "187.5">>

\* entries in one "Time Series (Daily)" object
MaxEntries == 2

\* the date keys of the JSON object; the last one is no calendar date
DateStrs == {"2024-01-02", "2024-01-03", "2024-02-30"}

\* the texts of the five values of an entry, one text standing for the five
ValueStrs == {"None", "187.5"}

NoFile == <<"NoFile">>
NoCall == "NoCall"
ValueError == -1

RECURSIVE SeqsUpTo(_, _)
SeqsUpTo(S, n) ==
    IF n = 0 THEN {<<>>}
    ELSE LET shorter == SeqsUpTo(S, n - 1)
         IN  shorter \cup {Append(s, x) : s \in {t \in shorter : Len(t) = n - 1}, x \in S}

\* the JSON object "Time Series (Daily)": entries <<date_str, values>> in
\* document order, no date key twice
TimeSeriesSet ==
    {ts \in SeqsUpTo(DateStrs \X ValueStrs, MaxEntries) :
        \A i, j \in 1 .. Len(ts) : i # j => ts[i][1] # ts[j][1]}

----------------------------------------------------------------------------
(* collect_and_save_stock_ohlcv_alphavantage                               *)

\* datetime.strptime(date_str, '%Y-%m-%d').date(), as the day of the year
strptime_date(date_str) ==
    CASE date_str = "2024-01-02" -> 2
      [] date_str = "2024-01-03" -> 3
      [] OTHER -> ValueError

Days == {strptime_date(d) : d \in DateStrs} \ {ValueError}

OhlcvKeys == (Symbols \cup {StoredRow[1]}) \X Days

\* float(v) if v != 'None' else None; None is stored as SQL NULL
parse_value(v) == IF v = "None" THEN "NULL" ELSE v

\* the parsing loop: an entry that raises ValueError is logged and skipped
RECURSIVE parse_time_series(_, _)
parse_time_series(symbol, time_series) ==
    IF time_series = <<>> THEN <<>>
    ELSE LET e == Head(time_series)
             rest == parse_time_series(symbol, Tail(time_series))
         IN  IF strptime_date(e[1]) = ValueError THEN rest
             ELSE <<<<symbol, strptime_date(e[1]), parse_value(e[2])>>>> \o rest

RowKey(row) == <<row[1], row[2]>>

\* the rows of the table with their copies, one more of `row`
InsertRow(table, row) ==
    [r \in DOMAIN table \cup {row} |->
        (IF r \in DOMAIN table THEN table[r] ELSE 0) + (IF r = row THEN 1 ELSE 0)]

\* a plain INSERT, the ON CONFLICT clause not acting
upsert_ohlcv_no_conflict(table, record) == InsertRow(table, record)

\* INSERT ... ON CONFLICT (symbol, timestamp) DO NOTHING
upsert_ohlcv_do_nothing(table, record) ==
    IF \E x \in DOMAIN table : RowKey(x) = RowKey(record) THEN table
    ELSE InsertRow(table, record)

\* INSERT ... ON CONFLICT (symbol, timestamp) DO UPDATE SET ... = EXCLUDED...
upsert_ohlcv(table, record) ==
    InsertRow([r \in {x \in DOMAIN table : RowKey(x) # RowKey(record)} |-> table[r]], record)

RECURSIVE execute_all(_, _)
execute_all(table, records) ==
    IF records = <<>> THEN table
    ELSE execute_all(upsert_ohlcv(table, Head(records)), Tail(records))

\* The save block: the records are executed in one transaction; fail_at = 0
\* is a run without error (commit), fail_at = k > 0 is an exception at the
\* k-th statement, answered by conn.rollback().
save_ohlcv_to_db(table, records, fail_at) ==
    IF fail_at = 0 THEN execute_all(table, records)
    ELSE LET uncommitted == execute_all(table, SubSeq(records, 1, fail_at - 1))
         IN  table

\* df.sort_values(by='timestamp'): each row goes behind the rows not later
RECURSIVE sort_values(_)
sort_values(records) ==
    IF records = <<>> THEN <<>>
    ELSE LET r == records[Len(records)]
             sorted == sort_values(SubSeq(records, 1, Len(records) - 1))
             n == Cardinality({i \in 1 .. Len(sorted) : sorted[i][2] <= r[2]})
         IN  SubSeq(sorted, 1, n) \o <<r>> \o SubSeq(sorted, n + 1, Len(sorted))

\* a CSV block that is skipped with the database block
write_ohlcv_csv_with_db_only(symbol, conn_ok, records) ==
    IF conn_ok /\ records # <<>> THEN <<symbol, sort_values(records)>> ELSE NoFile

\* the CSV block: it does not read conn; the rows are sorted and written to
\* {symbol}_ohlcv.csv, nothing is written when no record was parsed
write_ohlcv_csv(symbol, conn_ok, records) ==
    IF records # <<>> THEN <<symbol, sort_values(records)>> ELSE NoFile

Outcomes == {"RequestException", "Error Message", "Note", "NoTimeSeries", "TimeSeries"}

\* history: the values of the last record of this call for the key
RECURSIVE last_value_for(_, _, _)
last_value_for(key, records, before) ==
    IF records = <<>> THEN before
    ELSE LET r == records[Len(records)]
         IN  IF RowKey(r) = key THEN r[3]
             ELSE last_value_for(key, SubSeq(records, 1, Len(records) - 1), before)

\* One call.  conn_ok: get_db_connection returned a connection; outcome: what
\* the request gave; fail_at: the statement of the save block that raises.
\* get_stock_info_from_db, called before the CSV is written, answers every
\* outcome (an exception included) with a dictionary, so it only picks the
\* folder of the file.
collect_and_save_stock_ohlcv_alphavantage(symbol, conn_ok, outcome, time_series, fail_at) ==
    LET records == IF outcome = "TimeSeries" THEN parse_time_series(symbol, time_series) ELSE <<>>
        db_tried == conn_ok /\ records # <<>>
        commits == db_tried /\ fail_at = 0
        table == IF db_tried THEN save_ohlcv_to_db(stock_ohlcv, records, fail_at) ELSE stock_ohlcv
    IN  /\ stock_ohlcv' = table
        /\ written_csv' = write_ohlcv_csv(symbol, conn_ok, records)
        /\ committed_ohlcv' =
              IF commits
              THEN [k \in OhlcvKeys |-> last_value_for(k, records, committed_ohlcv[k])]
              ELSE committed_ohlcv
        /\ last_ohlcv' = [symbol |-> symbol, conn_ok |-> conn_ok, records |-> records,
                          committed |-> commits,
                          db_changed |-> table # stock_ohlcv,
                          conflict |-> \E i \in 1 .. Len(records) : \E x \in DOMAIN stock_ohlcv :
                                          RowKey(x) = RowKey(records[i]) /\ x[3] # records[i][3],
                          repeats |-> /\ last_ohlcv.symbol = symbol
                                      /\ last_ohlcv.records = records
                                      /\ (last_ohlcv.committed \/ ~commits)]
        /\ UNCHANGED NotOhlcv

\* The environment chooses whether the database connection opens, what the
\* API answers and which statement, if any, raises in the save block.
OhlcvCall ==
    \E symbol \in Symbols, conn_ok \in BOOLEAN, outcome \in Outcomes :
        IF outcome # "TimeSeries"
        THEN collect_and_save_stock_ohlcv_alphavantage(symbol, conn_ok, outcome, <<>>, 0)
        ELSE \E time_series \in TimeSeriesSet :
                LET n == Len(parse_time_series(symbol, time_series))
                IN  \E fail_at \in 0 .. (IF conn_ok THEN n ELSE 0) :
                        collect_and_save_stock_ohlcv_alphavantage(
                            symbol, conn_ok, outcome, time_series, fail_at)

OhlcvInit ==
    /\ stock_ohlcv = [r \in {StoredRow} |-> 1]
    /\ written_csv = NoFile
    /\ last_ohlcv = [symbol |-> NoCall, conn_ok |-> FALSE, records |-> <<>>,
                     committed |-> FALSE, db_changed |-> FALSE, conflict |-> FALSE,
                     repeats |-> FALSE]
    /\ committed_ohlcv = [k \in OhlcvKeys |-> IF k = RowKey(StoredRow) THEN StoredRow[3] ELSE "NoRow"]

RowsOfKey(k) == {r \in DOMAIN stock_ohlcv : RowKey(r) = k}

\* C1: after any sequence of calls, stock_ohlcv holds at most one row per
\* (symbol, timestamp), and that row carries the values of the most recent
\* call that committed a record for that key (no row when none did).
C1_OneRowPerKeyFromLastCommit ==
    /\ \A r \in DOMAIN stock_ohlcv : RowKey(r) \in OhlcvKeys /\ stock_ohlcv[r] = 1
    /\ \A k \in OhlcvKeys :
          /\ Cardinality(RowsOfKey(k)) <= 1
          /\ IF committed_ohlcv[k] = "NoRow" THEN RowsOfKey(k) = {}
             ELSE RowsOfKey(k) = {<<k[1], k[2], committed_ohlcv[k]>>}

\* a committed call met a stored row of one of its keys with other values
C1_Witness ==
    /\ last_ohlcv.committed /\ last_ohlcv.conflict /\ last_ohlcv.db_changed
    /\ Len(last_ohlcv.records) = 2

\* C2: a call that repeats the call before it (same symbol, same response)
\* leaves stock_ohlcv as the call before left it.
C2_RepeatedCallLeavesTable ==
    last_ohlcv.repeats => ~last_ohlcv.db_changed

\* the second of two equal calls that both committed their records
C2_Witness ==
    last_ohlcv.repeats /\ last_ohlcv.committed /\ Len(last_ohlcv.records) = 2

Occurrences(x, seq) == Cardinality({i \in 1 .. Len(seq) : seq[i] = x})

\* C3: a call whose database connection could not be opened writes nothing
\* to the database and still writes the CSV file with every parsed record.
C3_NoConnectionFileOnly ==
    (last_ohlcv.symbol # NoCall /\ ~last_ohlcv.conn_ok) =>
        /\ ~last_ohlcv.db_changed /\ ~last_ohlcv.committed
        /\ last_ohlcv.records # <<>> =>
              /\ written_csv # NoFile
              /\ written_csv[1] = last_ohlcv.symbol
              /\ Len(written_csv[2]) = Len(last_ohlcv.records)
              /\ \A i \in 1 .. Len(last_ohlcv.records) :
                    Occurrences(last_ohlcv.records[i], written_csv[2])
                        = Occurrences(last_ohlcv.records[i], last_ohlcv.records)

\* a call without connection parsed two records and wrote them
C3_Witness ==
    /\ last_ohlcv.symbol # NoCall /\ ~last_ohlcv.conn_ok
    /\ Len(last_ohlcv.records) = 2 /\ written_csv # NoFile

\* C18: whenever a call whose database connection was open writes the CSV
\* file, every record of that CSV has been committed to stock_ohlcv.
C18_CsvRecordsCommitted ==
    (last_ohlcv.symbol # NoCall /\ last_ohlcv.conn_ok /\ written_csv # NoFile) =>
        /\ last_ohlcv.committed
        /\ \A i \in 1 .. Len(written_csv[2]) : written_csv[2][i] \in DOMAIN stock_ohlcv

----------------------------------------------------------------------------
(* YfinanceCollector                                                       *)

YfSymbols == {"AAPL", "MSFT"}

\* symbols in the list given to collect_all_data
MaxSymbols == 2

\* timestamps of the daily bar that ticker.history(period="1d") returns
BarTimes == {1, 2}
Prices == {"187.5", "190.0"}
DividendDates == {1}
Amounts == {"0.24", "0.25"}
\* datetime.now() while the option rows are built
NowTimes == {1}
Expirations == {"2025-01-17"}
Strikes == {"200"}
ImpliedVols == {"0.31", "0.35"}
Absent == "Absent"

PriceKeys == BarTimes \X YfSymbols
DividendKeys == YfSymbols \X DividendDates
OptionKeys == NowTimes \X YfSymbols \X Expirations \X Strikes \X {"call", "put"}

\* INSERT ... ON CONFLICT (...) DO UPDATE SET value = EXCLUDED.value
insert_on_conflict_do_update(table, key, value) == [table EXCEPT ![key] = value]

\* INSERT ... ON CONFLICT (...) DO NOTHING
insert_on_conflict_do_nothing(table, key, value) ==
    IF table[key] = Absent THEN [table EXCEPT ![key] = value] ELSE table

\* session.execute(insert_stmt, rows): the statement once per row <<key, value>>
RECURSIVE execute_rows(_, _)
execute_rows(table, rows) ==
    IF rows = <<>> THEN table
    ELSE execute_rows(insert_on_conflict_do_nothing(table, Head(rows)[1], Head(rows)[2]),
                      Tail(rows))

\* history: the rows sent to `name`, with what the table held before
Sent(name, table, rows) ==
    {<<name, rows[j][1], rows[j][2], table[rows[j][1]]>> : j \in 1 .. Len(rows)}

\* the index after an iteration that is given up for good
abort_after_error(i, n) == n + 1

\* except DataCollectionError: a warning, and the for loop goes on
next_after_error(i, n) == i + 1

YfSymbol == yf_symbols[yf_i]

\* the DataCollectionError of a step ends the iteration of its symbol
YfRaise(step) ==
    /\ yf_log' = Append(yf_log, <<yf_i, step, "error">>)
    /\ yf_i' = next_after_error(yf_i, Len(yf_symbols))
    /\ yf_pc' = IF yf_i' <= Len(yf_symbols) THEN "price" ELSE "done"
    /\ yf_last' = {}

collect_all_data(symbols) ==
    /\ yf_pc = "idle"
    /\ yf_symbols' = symbols
    /\ yf_i' = 1
    /\ yf_pc' = IF symbols = <<>> THEN "done" ELSE "price"
    /\ UNCHANGED <<yf_log, stock_prices, dividends, option_chains, yf_last>>
    /\ UNCHANGED NotYf

\* result: <<"error">> an exception in the fetch, the insert or the commit
\* (rollback, DataCollectionError); <<"empty">> an empty frame; <<"row", time,
\* price>> the last bar
fetch_and_save_stock_price(result) ==
    /\ yf_pc = "price"
    /\ IF result[1] = "error"
       THEN YfRaise("price") /\ UNCHANGED stock_prices
       ELSE LET rows == IF result[1] = "empty" THEN <<>>
                        ELSE <<<<<<result[2], YfSymbol>>, result[3]>>>>
            IN  /\ stock_prices' = execute_rows(stock_prices, rows)
                /\ yf_last' = Sent("stock_prices", stock_prices, rows)
                /\ yf_log' = Append(yf_log, <<yf_i, "price", "ok">>)
                /\ yf_pc' = "dividends"
                /\ UNCHANGED yf_i
    /\ UNCHANGED <<yf_symbols, dividends, option_chains>>
    /\ UNCHANGED NotYf

\* result: <<"error">>, <<"empty">> or <<"rows", amounts>>: ticker.dividends,
\* one amount per dividend date
fetch_and_save_dividends(result) ==
    /\ yf_pc = "dividends"
    /\ IF result[1] = "error"
       THEN YfRaise("dividends") /\ UNCHANGED dividends
       ELSE LET rows == IF result[1] = "empty" THEN <<>>
                        ELSE [j \in 1 .. Len(result[2]) |-> <<<<YfSymbol, j>>, result[2][j]>>]
            IN  /\ dividends' = execute_rows(dividends, rows)
                /\ yf_last' = Sent("dividends", dividends, rows)
                /\ yf_log' = Append(yf_log, <<yf_i, "dividends", "ok">>)
                /\ yf_pc' = "options"
                /\ UNCHANGED yf_i
    /\ UNCHANGED <<yf_symbols, stock_prices, option_chains>>
    /\ UNCHANGED NotYf

\* result: <<"error">>, <<"none">> (no expiration date: return) or <<"chain",
\* now, expiration, strike, call_iv, put_iv>>: one call and one put row
fetch_and_save_option_chain(result) ==
    /\ yf_pc = "options"
    /\ IF result[1] = "error"
       THEN YfRaise("options") /\ UNCHANGED option_chains
       ELSE LET rows == IF result[1] = "none" THEN <<>>
                        ELSE <<<<<<result[2], YfSymbol, result[3], result[4], "call">>, result[5]>>,
                               <<<<result[2], YfSymbol, result[3], result[4], "put">>, result[6]>>>>
            IN  /\ option_chains' = execute_rows(option_chains, rows)
                /\ yf_last' = Sent("option_chains", option_chains, rows)
                /\ yf_log' = Append(yf_log, <<yf_i, "options", "ok">>)
                /\ yf_pc' = "sleep"
                /\ UNCHANGED yf_i
    /\ UNCHANGED <<yf_symbols, stock_prices, dividends>>
    /\ UNCHANGED NotYf

\* await asyncio.sleep(2), the last statement of an iteration without error
collect_all_data_sleep ==
    /\ yf_pc = "sleep"
    /\ yf_log' = Append(yf_log, <<yf_i, "sleep", "ok">>)
    /\ yf_i' = yf_i + 1
    /\ yf_pc' = IF yf_i' <= Len(yf_symbols) THEN "price" ELSE "done"
    /\ yf_last' = {}
    /\ UNCHANGED <<yf_symbols, stock_prices, dividends, option_chains>>
    /\ UNCHANGED NotYf

PriceResults == {<<"error">>, <<"empty">>} \cup ({"row"} \X BarTimes \X Prices)
DividendResults ==
    {<<"error">>, <<"empty">>} \cup ({"rows"} \X [1 .. Cardinality(DividendDates) -> Amounts])
OptionResults ==
    {<<"error">>, <<"none">>}
        \cup ({"chain"} \X NowTimes \X Expirations \X Strikes \X ImpliedVols \X ImpliedVols)

YfNext ==
    \/ \E symbols \in SeqsUpTo(YfSymbols, MaxSymbols) : collect_all_data(symbols)
    \/ \E result \in PriceResults : fetch_and_save_stock_price(result)
    \/ \E result \in DividendResults : fetch_and_save_dividends(result)
    \/ \E result \in OptionResults : fetch_and_save_option_chain(result)
    \/ collect_all_data_sleep

YfInit ==
    /\ yf_pc = "idle"
    /\ yf_symbols = <<>>
    /\ yf_i = 0
    /\ yf_log = <<>>
    /\ stock_prices = [k \in PriceKeys |-> Absent]
    /\ dividends = [k \in DividendKeys |-> Absent]
    /\ option_chains = [k \in OptionKeys |-> Absent]
    /\ yf_last = {}

YfTable(name) ==
    CASE name = "stock_prices" -> stock_prices
      [] name = "dividends" -> dividends
      [] OTHER -> option_chains

\* C4 as claimed: a row collected again for a stored key is updated to the
\* newly collected values.
C4_StoredRowUpdated ==
    \A e \in yf_last : YfTable(e[1])[e[2]] = e[3]

\* C4 as the code has it (ON CONFLICT ... DO NOTHING): a row collected for a
\* stored key leaves the stored row as it was; only a new key is inserted,
\* with the collected values.
C4_StoredRowKept ==
    \A e \in yf_last :
        YfTable(e[1])[e[2]] = (IF e[4] = Absent THEN e[3] ELSE e[4])

\* a step collected other values for a key that was stored
C4_Witness ==
    \E e \in yf_last : e[4] # Absent /\ e[4] # e[3] /\ YfTable(e[1])[e[2]] = e[4]

\* the collection steps of the log, the pauses left out
YfSteps == SelectSeq(yf_log, LAMBDA e : e[2] # "sleep")

StepAfter(step) == IF step = "price" THEN "dividends" ELSE "options"

\* C10: collect_all_data takes the symbols one by one in list order; for each
\* it runs price, then dividends, then option chain, one after the other; a
\* DataCollectionError ends the steps of that symbol only, and every later
\* symbol is still attempted.
C10_SerialStepsErrorSkipsSymbol ==
    /\ \A j \in 1 .. Len(YfSteps) :
          LET e == YfSteps[j]
          IN  IF j = 1 THEN e[1] = 1 /\ e[2] = "price"
              ELSE LET b == YfSteps[j - 1]
                   IN  IF b[3] = "ok" /\ b[2] # "options"
                       THEN e[1] = b[1] /\ e[2] = StepAfter(b[2])
                       ELSE e[1] = b[1] + 1 /\ e[2] = "price"
    /\ \A j \in 1 .. Len(YfSteps) : YfSteps[j][1] \in 1 .. Len(yf_symbols)
    /\ yf_pc = "done" =>
          \A i \in 1 .. Len(yf_symbols) :
              \E j \in 1 .. Len(YfSteps) : YfSteps[j][1] = i /\ YfSteps[j][2] = "price"

\* the run is over; the first symbol failed in its dividends step, the
\* second one went through its three steps
C10_Witness ==
    /\ yf_pc = "done" /\ Len(yf_symbols) = 2
    /\ \E j \in 1 .. Len(YfSteps) : YfSteps[j] = <<1, "dividends", "error">>
    /\ \E j \in 1 .. Len(YfSteps) : YfSteps[j] = <<2, "options", "ok">>

\* C16: after each symbol, collect_all_data pauses (asyncio.sleep(2)) before
\* it issues the first request for the following symbol, whether or not the
\* collection for the earlier symbol succeeded.
C16_PauseBeforeNextSymbol ==
    \A j \in 1 .. Len(yf_log) :
        yf_log[j][2] = "price" /\ yf_log[j][1] > 1 =>
            yf_log[j - 1] = <<yf_log[j][1] - 1, "sleep", "ok">>

----------------------------------------------------------------------------
(* collect_fred_series                                                     *)

FredSeries == {"GDP"}

\* observation dates are 1..MaxFredDate
MaxFredDate == 2

FredDates == 1 .. MaxFredDate
FredValues == {"1.0", "2.0"}

\* a downloaded series: the values of a non-empty set of observation dates
FredData ==
    UNION {[ds -> FredValues] : ds \in (SUBSET FredDates) \ {{}}}

\* data_df.to_sql(table_name, engine, if_exists='append'): the rows go in by
\* one INSERT inside one transaction; UNIQUE (series_id, date) rejects the
\* statement when one key is stored, and the transaction is rolled back
to_sql_append(table, series_id, data) ==
    IF \E d \in DOMAIN data : table[<<series_id, d>>] # Absent
    THEN table
    ELSE [k \in DOMAIN table |->
            IF k[1] = series_id /\ k[2] \in DOMAIN data THEN data[k[2]] ELSE table[k]]

\* fetch: <<"error">> get_series raises, <<"empty">> no data, <<"data", d>>;
\* db: "ok", or "error" for a failure other than a duplicate key
collect_fred_series(series_id, api_key, engine, fetch, db) ==
    LET saves == api_key /\ engine /\ fetch[1] = "data"
        data == IF saves THEN fetch[2] ELSE << >>
        duplicate == saves /\ db = "ok"
                        /\ \E d \in DOMAIN data : fred_series_raw[<<series_id, d>>] # Absent
        stored == saves /\ db = "ok" /\ ~duplicate
    IN  /\ fred_series_raw' = IF saves /\ db = "ok"
                              THEN to_sql_append(fred_series_raw, series_id, data)
                              ELSE fred_series_raw
        /\ fred_last' = [series_id |-> series_id, data |-> data,
                         before |-> fred_series_raw,
                         duplicate |-> duplicate,
                         returned |-> stored \/ duplicate]
        /\ UNCHANGED NotFred

FredCall ==
    \E series_id \in FredSeries, api_key \in BOOLEAN, engine \in BOOLEAN,
       fetch \in {<<"error">>, <<"empty">>} \cup ({"data"} \X FredData),
       db \in {"ok", "error"} :
        /\ (~api_key) => (engine /\ fetch = <<"error">>)
        /\ (~engine) => fetch = <<"error">>
        /\ fetch[1] # "data" => db = "ok"
        /\ collect_fred_series(series_id, api_key, engine, fetch, db)

FredKeys == FredSeries \X FredDates

FredInit ==
    /\ fred_series_raw = [k \in FredKeys |-> Absent]
    /\ fred_last = [series_id |-> "none", data |-> << >>, before |-> << >>,
                    duplicate |-> FALSE, returned |-> FALSE]

\* C5: when the append hits a duplicate key, collect_fred_series returns True
\* and the table then holds the rows of the dates that were new, the rows of
\* the dates that were stored being left as they were.
C5_DuplicateAppendsNewDates ==
    fred_last.duplicate =>
        /\ fred_last.returned
        /\ \A d \in DOMAIN fred_last.data :
              LET k == <<fred_last.series_id, d>>
              IN  fred_series_raw[k] =
                    (IF fred_last.before[k] = Absent THEN fred_last.data[d]
                     ELSE fred_last.before[k])

----------------------------------------------------------------------------
(* collect_and_save_financials_alphavantage (Data collector)               *)

\* the keys of the dictionary urls, in insertion order
StatementTypes == <<"income", "balance", "cashflow">>

\* time.sleep(15)
RateLimitSleep == 15

\* what one request gives: reports found (quarterly ones, else annual ones),
\* none found, the API's "Error Message" or "Note", a RequestException, or
\* another exception while the answer is parsed
StatementOutcomes ==
    {"quarterly", "annual", "none", "Error Message", "Note", "RequestException", "Exception"}

FiscalDate == "2024-03-31"

\* financial_statements_raw[stmt_type] after the request
statement_reports(outcome) ==
    IF outcome \in {"quarterly", "annual"} THEN <<<<FiscalDate, outcome>>>> ELSE <<>>

\* a sleep at the end of the try block: `continue` and the exceptions miss it
sleeps_at_end_of_try(outcome) == outcome \in {"quarterly", "annual", "none"}

\* finally: time.sleep(15) runs on every way out of the try block
sleeps_after_request(outcome) == TRUE

\* The script: without an API key it exits before any collection; else it
\* calls the function, which returns at once on a missing key, opens the
\* database connection and builds the three URLs.
financials_main(api_key, conn_ok) ==
    /\ fin_pc = "idle"
    /\ fin_pc' = IF api_key = "" THEN "exited" ELSE "request"
    /\ fin_idx' = 1
    /\ fin_conn' = conn_ok
    /\ UNCHANGED <<fin_trace, fin_raw, financials, fin_csv>>
    /\ UNCHANGED NotFin

\* requests.get, raise_for_status, response.json() and the reading of the
\* answer, for the statement type of this iteration
financials_request(outcome) ==
    /\ fin_pc = "request"
    /\ fin_trace' = Append(fin_trace, <<"request", StatementTypes[fin_idx], outcome>>)
    /\ fin_raw' = [fin_raw EXCEPT ![StatementTypes[fin_idx]] = statement_reports(outcome)]
    /\ IF sleeps_after_request(outcome)
       THEN fin_pc' = "sleep" /\ UNCHANGED fin_idx
       ELSE /\ fin_idx' = fin_idx + 1
            /\ fin_pc' = IF fin_idx < Len(StatementTypes) THEN "request" ELSE "merge"
    /\ UNCHANGED <<fin_conn, financials, fin_csv>>
    /\ UNCHANGED NotFin

financials_sleep ==
    /\ fin_pc = "sleep"
    /\ fin_trace' = Append(fin_trace, <<"sleep", RateLimitSleep>>)
    /\ fin_idx' = fin_idx + 1
    /\ fin_pc' = IF fin_idx < Len(StatementTypes) THEN "request" ELSE "merge"
    /\ UNCHANGED <<fin_conn, fin_raw, financials, fin_csv>>
    /\ UNCHANGED NotFin

\* combined_financials: one entry per fiscalDateEnding, with the period type
\* of the first statement that reports the date
RECURSIVE combine_reports(_, _)
combine_reports(i, combined) ==
    IF i > Len(StatementTypes) THEN combined
    ELSE LET reports == fin_raw[StatementTypes[i]]
             fresh == {reports[j] : j \in 1 .. Len(reports)}
         IN  combine_reports(i + 1,
                combined \cup {r \in fresh : \A c \in combined : c[1] # r[1]})

\* the merge, the upsert into financials (rolled back on an error) and the CSV
financials_merge_and_save(db_error) ==
    /\ fin_pc = "merge"
    /\ LET combined == combine_reports(1, {})
       IN  /\ financials' = IF fin_conn /\ ~db_error THEN financials \cup combined
                            ELSE financials
           /\ fin_csv' = IF combined = {} THEN fin_csv ELSE combined
    /\ fin_trace' = Append(fin_trace, <<"merge">>)
    /\ fin_pc' = "done"
    /\ UNCHANGED <<fin_idx, fin_conn, fin_raw>>
    /\ UNCHANGED NotFin

FinNext ==
    \/ \E api_key \in {"", "KEY"}, conn_ok \in BOOLEAN : financials_main(api_key, conn_ok)
    \/ \E outcome \in StatementOutcomes : financials_request(outcome)
    \/ financials_sleep
    \/ \E db_error \in BOOLEAN : financials_merge_and_save(db_error)

FinInit ==
    /\ fin_pc = "idle"
    /\ fin_idx = 0
    /\ fin_conn = FALSE
    /\ fin_trace = <<>>
    /\ fin_raw = [t \in {StatementTypes[i] : i \in 1 .. Len(StatementTypes)} |-> <<>>]
    /\ financials = {}
    /\ fin_csv = NoFile

FinRequests == SelectSeq(fin_trace, LAMBDA e : e[1] = "request")

\* C6: the three statement requests are all issued, income, balance, cash
\* flow in that order, and each is followed by a 15-second sleep before the
\* next request or the merge step, whatever the request gave.
C6_ThreeRequestsEachFollowedBySleep ==
    /\ Len(FinRequests) <= Len(StatementTypes)
    /\ \A i \in 1 .. Len(FinRequests) : FinRequests[i][2] = StatementTypes[i]
    /\ \A j \in 1 .. Len(fin_trace) :
          fin_trace[j][1] = "request" =>
              IF j < Len(fin_trace) THEN fin_trace[j + 1] = <<"sleep", 15>>
              ELSE fin_pc = "sleep"
    /\ fin_pc \in {"merge", "done"} => Len(FinRequests) = Len(StatementTypes)

\* the function has returned after an "Error Message", a RequestException
\* and a "Note"
C6_Witness ==
    /\ fin_pc = "done"
    /\ \E j \in 1 .. Len(fin_trace) : fin_trace[j] = <<"request", "income", "Error Message">>
    /\ \E j \in 1 .. Len(fin_trace) : fin_trace[j] = <<"request", "balance", "RequestException">>
    /\ \E j \in 1 .. Len(fin_trace) : fin_trace[j] = <<"request", "cashflow", "Note">>

----------------------------------------------------------------------------
(* get_api_response (World Bank collector)                                 *)

\* the largest value of the argument retries (its default is 3)
MaxRetries == 3

\* the values of the argument delay (its default is 1)
Delays == {1, 2}

Bodies == {"[meta, rows]", "[message]"}

None == "None"

\* What one pass through the try block gives: a parsed body, or an exception.
\* "RequestException" is any requests exception (connection, timeout, HTTP
\* status); "requests.JSONDecodeError" is the exception response.json()
\* raises in requests >= 2.27, a subclass of both RequestException and
\* json.JSONDecodeError; "json.JSONDecodeError" is the one older versions
\* raise, no RequestException.
AttemptOutcomes ==
    (Bodies \X {"ok"}) \cup
    ({None} \X {"RequestException", "requests.JSONDecodeError", "json.JSONDecodeError"})

\* the except clause that takes the exception: the first one that matches
except_clause(exception) ==
    IF exception \in {"RequestException", "requests.JSONDecodeError"}
    THEN "except RequestException"
    ELSE "except JSONDecodeError"

\* a sleep after every failed attempt, the last one too
sleeps_after_every_failure(attempt, retries) == TRUE

\* if attempt < retries - 1: time.sleep(delay)
sleeps_before_retry(attempt, retries) == attempt < retries - 1

get_api_response(retries, delay) ==
    /\ api_pc = "idle"
    /\ api_retries' = retries
    /\ api_delay' = delay
    /\ api_attempt' = 0
    /\ api_trace' = <<>>
    \* for attempt in range(retries): no pass when retries is 0
    /\ IF retries = 0
       THEN api_pc' = "returned" /\ api_result' = None
       ELSE api_pc' = "attempt" /\ UNCHANGED api_result
    /\ UNCHANGED NotApi

\* the end of one pass of the loop that did not return
ApiNextPass ==
    /\ api_attempt' = api_attempt + 1
    /\ IF api_attempt + 1 < api_retries
       THEN api_pc' = "attempt" /\ UNCHANGED api_result
       ELSE api_pc' = "returned" /\ api_result' = None

api_attempt_request(outcome) ==
    /\ api_pc = "attempt"
    /\ api_trace' = Append(api_trace, <<"request", api_attempt, outcome[2], outcome[1]>>)
    /\ IF outcome[2] = "ok"
       THEN api_pc' = "returned" /\ api_result' = outcome[1] /\ UNCHANGED api_attempt
       ELSE IF except_clause(outcome[2]) = "except RequestException"
            THEN IF sleeps_before_retry(api_attempt, api_retries)
                 THEN api_pc' = "sleep" /\ UNCHANGED <<api_attempt, api_result>>
                 ELSE ApiNextPass
            ELSE api_pc' = "returned" /\ api_result' = None /\ UNCHANGED api_attempt
    /\ UNCHANGED <<api_retries, api_delay>>
    /\ UNCHANGED NotApi

api_sleep ==
    /\ api_pc = "sleep"
    /\ api_trace' = Append(api_trace, <<"sleep", api_attempt, api_delay>>)
    /\ ApiNextPass
    /\ UNCHANGED <<api_retries, api_delay>>
    /\ UNCHANGED NotApi

ApiNext ==
    \/ \E retries \in 0 .. MaxRetries, delay \in Delays : get_api_response(retries, delay)
    \/ \E outcome \in AttemptOutcomes : api_attempt_request(outcome)
    \/ api_sleep

ApiInit ==
    /\ api_pc = "idle"
    /\ api_retries = 0
    /\ api_delay = 0
    /\ api_attempt = 0
    /\ api_trace = <<>>
    /\ api_result = "none yet"

ApiRequests == SelectSeq(api_trace, LAMBDA e : e[1] = "request")
ApiSleeps == SelectSeq(api_trace, LAMBDA e : e[1] = "sleep")
ApiFailed(e) == e[1] = "request" /\ e[3] # "ok"

\* the safety part of C7
C7_Safety ==
    \* at most `retries` requests
    /\ Len(ApiRequests) <= api_retries
    \* a request is made only while every request before it has failed
    /\ \A j \in 1 .. Len(ApiRequests) - 1 : ApiFailed(ApiRequests[j])
    \* delay seconds of sleep right after a failed attempt that is not the
    \* last one of the call, and no sleep anywhere else
    /\ Len(ApiSleeps) <= Len(ApiRequests)
    /\ api_pc = "returned" /\ Len(ApiRequests) > 0 => Len(ApiSleeps) = Len(ApiRequests) - 1
    /\ \A j \in 1 .. Len(api_trace) :
          api_trace[j][1] = "sleep" =>
              /\ j > 1 /\ ApiFailed(api_trace[j - 1])
              /\ api_trace[j][3] = api_delay
              /\ api_trace[j][2] < api_retries - 1
    \* the result: None when no request succeeded, always so after `retries`
    \* failures; else the body the successful request gave
    /\ api_pc = "returned" =>
          IF \E j \in 1 .. Len(ApiRequests) : ~ApiFailed(ApiRequests[j])
          THEN api_result = ApiRequests[Len(ApiRequests)][4] /\ api_result \in Bodies
          ELSE api_result = None
    /\ api_pc = "returned" /\ Len(ApiRequests) = api_retries
          /\ (\A j \in 1 .. api_retries : ApiFailed(ApiRequests[j]))
       => api_result = None

\* C7: get_api_response issues at most `retries` requests, returns the body
\* of the first request that succeeds, sleeps `delay` seconds after each
\* failed attempt except the last one, returns None once all attempts have
\* failed, and always returns.
C7_BoundedRetriesAndReturn ==
    [](C7_Safety) /\ <>(api_pc = "returned")

\* three requests failed, two sleeps were taken, None was returned
C7_Witness ==
    /\ api_pc = "returned" /\ api_result = None
    /\ Len(ApiRequests) = 3 /\ Len(ApiSleeps) = 2 /\ api_retries = 3
    /\ \A j \in 1 .. 3 : ApiRequests[j][3] = "RequestException"

\* a request whose body could not be decoded as JSON, by either exception
ApiJsonError(e) ==
    e[1] = "request" /\ e[3] \in {"requests.JSONDecodeError", "json.JSONDecodeError"}

\* C14: a JSON decoding error in get_api_response ends the call at once with
\* None: no further request is made and no retry delay is slept.
C14_JsonErrorEndsCall ==
    \A j \in 1 .. Len(api_trace) :
        ApiJsonError(api_trace[j]) =>
            /\ j = Len(api_trace)
            /\ api_pc = "returned"
            /\ api_result = None

----------------------------------------------------------------------------
(* collect_world_bank_data                                                 *)

\* items of the country list: <<id, region id, incomeLevel id>>; the
\* aggregates (World, ...) have region and income level "NA"
WbItems == {<<"KOR", "EAS", "HIC">>, <<"USA", "NAC", "HIC">>, <<"WLD", "NA", "NA">>}

\* the longest country list the API returns here
MaxListed == 2

\* the largest indicator map
MaxIndicators == 2

IndicatorCodes == {"NY.GDP.MKTP.CD", "SP.POP.TOTL"}

\* countries_to_fetch: None, or a list of codes (one of them unknown to the API)
AllCountries == {"None"}
RequestedCodes == {"KOR", "USA", "ZZZ"}

NoRepeat(seq) == \A i, j \in 1 .. Len(seq) : i # j => seq[i] # seq[j]

\* the value get_api_response gives for the country-list url: None, a body
\* with a message only, a body whose second element is null, or rows
WbResponses ==
    ({"None", "message", "null rows"} \X {<<>>}) \cup
    ({"rows"} \X {l \in SeqsUpTo(WbItems, MaxListed) : NoRepeat(l)})

WbIndicatorMaps == {m \in SeqsUpTo(IndicatorCodes, MaxIndicators) : NoRepeat(m)}

fetch_all_countries(data) ==
    IF data[1] = "rows"
    THEN LET ids == [n \in 1 .. Len(data[2]) |-> data[2][n]]
         IN  SelectSeq(ids, LAMBDA item :
                 item[1] # "all" /\ item[2] # "NA" /\ item[3] # "NA")
    ELSE <<>>

\* the result of the last line, were it to depend on the saves
returns_whether_saved(succeeded) == succeeded > 0

\* return True
returns_after_loop(succeeded) == TRUE

collect_world_bank_data(countries_to_fetch, indicators_to_fetch, data) ==
    /\ wb_pc = "idle"
    /\ wb_requested' = countries_to_fetch
    /\ wb_indicators' = indicators_to_fetch
    /\ wb_c' = 1
    /\ wb_i' = 1
    /\ wb_calls' = <<>>
    /\ wb_succeeded' = 0
    /\ UNCHANGED wb_files
    /\ IF indicators_to_fetch = <<>>
       THEN \* if not current_indicators: return False
            /\ wb_response' = <<"not requested", <<>>>>
            /\ wb_countries' = <<>>
            /\ wb_pc' = "returned" /\ wb_result' = FALSE
       ELSE LET all_available_countries == fetch_all_countries(data)
                countries ==
                    IF countries_to_fetch = AllCountries
                    THEN all_available_countries
                    ELSE SelectSeq(all_available_countries,
                                   LAMBDA item : item[1] \in countries_to_fetch)
            IN  /\ wb_response' = data
                /\ wb_countries' = [n \in 1 .. Len(countries) |-> countries[n][1]]
                /\ IF countries = <<>>
                   THEN wb_pc' = "returned" /\ wb_result' = FALSE
                   ELSE wb_pc' = "indicator" /\ UNCHANGED wb_result
    /\ UNCHANGED NotWb

\* one pass of the inner loop; saved is what fetch_and_save_indicator_data
\* returns: True when rows came and the file was written
fetch_and_save_indicator_data(saved) ==
    /\ wb_pc = "indicator"
    /\ LET country_code == wb_countries[wb_c]
           indicator_code == wb_indicators[wb_i]
       IN  /\ wb_calls' = Append(wb_calls, <<country_code, indicator_code>>)
           /\ wb_files' = IF saved THEN wb_files \cup {<<country_code, indicator_code>>}
                          ELSE wb_files
    /\ wb_succeeded' = IF saved THEN wb_succeeded + 1 ELSE wb_succeeded
    /\ IF wb_i < Len(wb_indicators)
       THEN wb_i' = wb_i + 1 /\ UNCHANGED wb_pc
       ELSE wb_i' = 1 /\ wb_pc' = "sleep"
    /\ UNCHANGED <<wb_requested, wb_response, wb_countries, wb_indicators, wb_c, wb_result>>
    /\ UNCHANGED NotWb

\* time.sleep(COUNTRY_PROCESSING_DELAY_SECONDS), then the next country or the end
wb_country_sleep ==
    /\ wb_pc = "sleep"
    /\ IF wb_c < Len(wb_countries)
       THEN wb_c' = wb_c + 1 /\ wb_pc' = "indicator" /\ UNCHANGED wb_result
       ELSE /\ wb_pc' = "returned"
            /\ wb_result' = returns_after_loop(wb_succeeded)
            /\ UNCHANGED wb_c
    /\ UNCHANGED <<wb_requested, wb_response, wb_countries, wb_indicators, wb_i,
                   wb_calls, wb_succeeded, wb_files>>
    /\ UNCHANGED NotWb

WbNext ==
    \/ \E countries_to_fetch \in {AllCountries} \cup SUBSET RequestedCodes,
          indicators_to_fetch \in WbIndicatorMaps,
          data \in WbResponses :
          collect_world_bank_data(countries_to_fetch, indicators_to_fetch, data)
    \/ \E saved \in BOOLEAN : fetch_and_save_indicator_data(saved)
    \/ wb_country_sleep

WbInit ==
    /\ wb_pc = "idle"
    /\ wb_requested = AllCountries
    /\ wb_response = <<"not requested", <<>>>>
    /\ wb_countries = <<>>
    /\ wb_indicators = <<>>
    /\ wb_c = 1
    /\ wb_i = 1
    /\ wb_calls = <<>>
    /\ wb_succeeded = 0
    /\ wb_files = {}
    /\ wb_result = FALSE

\* the requested countries found in the country list (aggregates are no countries)
WbResolved ==
    {item[1] : item \in
        {wb_response[2][n] : n \in 1 .. Len(wb_response[2])}} \cap
    {c \in {item[1] : item \in {x \in WbItems : x[2] # "NA"}} :
        wb_requested = AllCountries \/ c \in wb_requested}

WbIndicatorSet == {wb_indicators[n] : n \in 1 .. Len(wb_indicators)}

WbCallsOf(pair) == Cardinality({n \in 1 .. Len(wb_calls) : wb_calls[n] = pair})

\* C8: with a non-empty indicator map and a resolved country,
\* collect_world_bank_data calls fetch_and_save_indicator_data exactly once
\* for every (country, indicator) pair, country by country, and returns True
\* whatever the number of saves; with an empty map or no resolved country it
\* returns False and fetches no indicator.
C8_OncePerPairThenTrue ==
    wb_pc = "returned" =>
        IF wb_indicators # <<>> /\ WbResolved # {}
        THEN /\ wb_result = TRUE
             /\ \A c \in WbResolved, i \in WbIndicatorSet : WbCallsOf(<<c, i>>) = 1
             /\ Len(wb_calls) = Cardinality(WbResolved) * Cardinality(WbIndicatorSet)
             /\ \A j, k, l \in 1 .. Len(wb_calls) :
                   j < k /\ k < l /\ wb_calls[j][1] = wb_calls[l][1]
                       => wb_calls[k][1] = wb_calls[j][1]
        ELSE wb_result = FALSE /\ wb_calls = <<>>

\* two countries and two indicators were gone through, nothing was saved,
\* True was returned
C8_Witness ==
    /\ wb_pc = "returned" /\ wb_result = TRUE
    /\ Len(wb_calls) = 4 /\ wb_succeeded = 0
    /\ wb_requested # AllCountries

----------------------------------------------------------------------------
(* NewsProcessor.preprocess_articles                                       *)

\* the longest list of loaded articles
MaxArticles == 3

\* the url of an article: "" is an article whose url is missing, null or empty
Urls == {"", "u1", "u2"}

\* scraped_at: ISO timestamps compare as strings in the order of time; 0 is
\* the default '0000-00-00T00:00:00' taken for an article without the field
DefaultScrapedAt == 0
ScrapedAts == {DefaultScrapedAt, 1, 2}

\* an article is <<url, scraped_at, n>>, n its position in the loaded list
\* (two articles of equal fields are still two objects)
ArticleLists ==
    {[n \in 1 .. Len(l) |-> <<l[n][1], l[n][2], n>>] :
        l \in SeqsUpTo(Urls \X ScrapedAts, MaxArticles)}

\* replaces on a tie as well
not_before(current_scraped_at, existing_scraped_at) ==
    current_scraped_at >= existing_scraped_at

\* current_scraped_at > existing_scraped_at
later_than(current_scraped_at, existing_scraped_at) ==
    current_scraped_at > existing_scraped_at

\* unique_articles is an insertion-ordered dict: a sequence of <<url, article>>
DictIndex(dict, url) ==
    IF \E n \in 1 .. Len(dict) : dict[n][1] = url
    THEN CHOOSE n \in 1 .. Len(dict) : dict[n][1] = url
    ELSE 0

\* the loop of preprocess_articles over the first n articles:
\* <<unique_articles, no_url_articles>>
RECURSIVE dedup_loop(_, _)
dedup_loop(list, n) ==
    IF n = 0 THEN <<(<<>>), (<<>>)>>
    ELSE LET prev == dedup_loop(list, n - 1)
             unique_articles == prev[1]
             no_url_articles == prev[2]
             article == list[n]
             url == article[1]
             at == DictIndex(unique_articles, url)
         IN  IF url # ""
             THEN IF at = 0
                  THEN <<Append(unique_articles, <<url, article>>), no_url_articles>>
                  ELSE IF later_than(article[2], unique_articles[at][2][2])
                       THEN <<[unique_articles EXCEPT ![at] = <<url, article>>],
                              no_url_articles>>
                       ELSE prev
             ELSE <<unique_articles, Append(no_url_articles, article)>>

preprocess_articles(list) ==
    IF list = <<>> THEN <<>>
    ELSE LET done == dedup_loop(list, Len(list))
         IN  [n \in 1 .. Len(done[1]) |-> done[1][n][2]] \o done[2]

\* __init__ -> load_data: the articles of the file ([] when it cannot be read)
load_data(loaded) ==
    /\ news_pc = "new"
    /\ articles' = loaded
    /\ news_pc' = "loaded"
    /\ UNCHANGED processed_list
    /\ UNCHANGED NotNews

call_preprocess_articles ==
    /\ news_pc = "loaded"
    /\ processed_list' = preprocess_articles(articles)
    /\ news_pc' = "processed"
    /\ UNCHANGED articles
    /\ UNCHANGED NotNews

NewsNext ==
    \/ \E loaded \in ArticleLists : load_data(loaded)
    \/ call_preprocess_articles

NewsInit ==
    /\ news_pc = "new"
    /\ articles = <<>>
    /\ processed_list = <<>>

LoadedUrls == {articles[n][1] : n \in 1 .. Len(articles)} \ {""}

\* the positions of the loaded articles of url u with the greatest scraped_at
Latest(u) ==
    {n \in 1 .. Len(articles) :
        /\ articles[n][1] = u
        /\ \A m \in 1 .. Len(articles) :
              articles[m][1] = u => articles[m][2] <= articles[n][2]}

\* the first of them
Kept(u) == CHOOSE n \in Latest(u) : \A m \in Latest(u) : n <= m

\* C9: preprocess_articles returns exactly one article for each distinct
\* non-empty url, the one with the greatest scraped_at among the loaded
\* articles of that url, the first encountered on ties, followed by every
\* loaded article that has no url.
C9_LatestPerUrlThenNoUrl ==
    news_pc = "processed" =>
        LET k == Cardinality(LoadedUrls)
            no_url == SelectSeq(articles, LAMBDA a : a[1] = "")
        IN  /\ Len(processed_list) = k + Len(no_url)
            /\ \A u \in LoadedUrls :
                  /\ Cardinality({n \in 1 .. Len(processed_list) :
                                     processed_list[n][1] = u}) = 1
                  /\ \E n \in 1 .. k : processed_list[n] = articles[Kept(u)]
            /\ \A n \in 1 .. Len(no_url) : processed_list[k + n] = no_url[n]

\* two articles of one url tie on scraped_at, a third has no url
C9_Witness ==
    /\ news_pc = "processed"
    /\ \E m, n \in 1 .. Len(articles) :
          /\ m < n /\ articles[m][1] = "u1" /\ articles[n][1] = "u1"
          /\ articles[m][2] = articles[n][2]
          /\ processed_list[1] = articles[m]
    /\ \E n \in 1 .. Len(articles) : articles[n][1] = ""
    /\ Len(processed_list) = 2

----------------------------------------------------------------------------
(* black_scholes_merton_enhanced                                           *)

\* the largest number passed as an argument
MaxNumber == 1

\* an argument is <<type, value>>: a Python int or float, the float nan, or
\* an object of another type (a str, None)
Numbers == {<<"number", n>> : n \in -1 .. MaxNumber}
BsmValues == Numbers \cup {<<"nan", 0>>, <<"str", 0>>}

OptionTypes == {"call", "put", "straddle"}

\* isinstance(arg, (int, float)) and arg >= 0; nan >= 0 is False
is_number_ge_0(arg) ==
    /\ arg[1] \in {"number", "nan"}
    /\ arg[1] = "number" /\ arg[2] >= 0

Max(a, b) == IF a >= b THEN a ELSE b

\* the dict of the branch T <= 0: <<"expired", price, delta>>
expired_result(S, K, option_type) ==
    <<"expired",
      IF option_type = "call" THEN Max(0, S - K) ELSE Max(0, K - S),
      IF option_type = "call" /\ S > K THEN 1
      ELSE IF option_type = "call" /\ S < K THEN 0
      ELSE IF option_type = "put" /\ S < K THEN -1
      ELSE 0>>

\* The value or the exception of a call. The closed-form prices of the
\* branch T > 0 are floating-point numbers and are not computed here: the
\* result is <<"priced", 0, 0>>. S / K divides two Python numbers, which
\* raises ZeroDivisionError for K = 0; the other divisions have a numpy
\* operand and give inf or nan with a warning.
black_scholes_merton_enhanced(S, K, T, r, sigma, q, option_type) ==
    IF ~(\A arg \in {S, K, T, sigma, r, q} : is_number_ge_0(arg))
    THEN <<"ValueError", 0, 0>>
    ELSE IF T[2] <= 0
    THEN expired_result(S[2], K[2], option_type)
    ELSE IF K[2] = 0
    THEN <<"ZeroDivisionError", 0, 0>>
    ELSE IF option_type \in {"call", "put"}
    THEN <<"priced", 0, 0>>
    ELSE <<"ValueError", 0, 0>>

call_black_scholes_merton_enhanced(S, K, T, r, sigma, q, option_type) ==
    /\ bsm_pc = "idle"
    /\ bsm_args' = <<S, K, T, sigma, r, q, option_type>>
    /\ bsm_result' = black_scholes_merton_enhanced(S, K, T, r, sigma, q, option_type)
    /\ bsm_pc' = "returned"
    /\ UNCHANGED NotBsm

\* one call per behaviour: the function keeps no state between calls
BsmNext ==
    /\ bsm_pc = "idle"
    /\ \E S \in BsmValues, K \in BsmValues, T \in BsmValues, r \in BsmValues,
          sigma \in BsmValues, q \in BsmValues, option_type \in OptionTypes :
           call_black_scholes_merton_enhanced(S, K, T, r, sigma, q, option_type)

BsmInit ==
    /\ bsm_pc = "idle"
    /\ bsm_args = <<>>
    /\ bsm_result = <<"not called", 0, 0>>

\* the six numeric arguments of the call are numbers >= 0
BsmInputsValid ==
    \A n \in 1 .. 6 : bsm_args[n][1] = "number" /\ bsm_args[n][2] >= 0

\* C11: black_scholes_merton_enhanced raises ValueError exactly when one of
\* S, K, T, sigma, r, q is not a number >= 0, and every call with six
\* numbers >= 0 and option_type 'call' or 'put' returns the result dictionary
\* without raising any other exception.
C11_ValueErrorExactlyOnBadNumbers ==
    bsm_pc = "returned" =>
        /\ (bsm_result[1] = "ValueError") <=> ~BsmInputsValid
        /\ BsmInputsValid /\ bsm_args[7] \in {"call", "put"}
              => bsm_result[1] \in {"expired", "priced"}

\* C12: black_scholes_merton_enhanced rejects every option_type other than
\* 'call' or 'put' with ValueError, for all valid numeric inputs, T = 0
\* included.
C12_UnknownOptionTypeRejected ==
    bsm_pc = "returned" /\ BsmInputsValid /\ bsm_args[7] \notin {"call", "put"}
        => bsm_result[1] = "ValueError"

----------------------------------------------------------------------------
(* load_config                                                             *)

\* A key of the database section is a sequence of parts: a name followed by
\* any number of "_env" suffixes ("user", "user_env", "user_env_env").
\* MaxKeyParts is the largest number of parts.
MaxKeyParts == 3

DbKeys ==
    {k \in SeqsUpTo({"user", "_env"}, MaxKeyParts) :
        /\ k # <<>>
        /\ k[1] = "user"
        /\ \A n \in 2 .. Len(k) : k[n] = "_env"}

ApiKeyNames == {"alphavantage", "fred"}

EnvVarNames == {"DB_USER", "AV_KEY"}

\* os.getenv gives None for "unset"; "" is a variable set to the empty string
EnvValues == {"unset", "", "secret"}

\* a section of config.yaml: entries <<key, value>> in file order, keys distinct
Sections(keys) ==
    {e \in SeqsUpTo(keys \X EnvVarNames, Cardinality(keys)) :
        \A i, j \in 1 .. Len(e) : i # j => e[i][1] # e[j][1]}

\* db_key.endswith('_env')
endswith_env(db_key) == db_key[Len(db_key)] = "_env"

\* keeps the key as it is
keep_key(db_key) == db_key

\* db_key[:-4]
strip_env(db_key) == SubSeq(db_key, 1, Len(db_key) - 1)

\* if env_var_value: neither None nor ''
is_set(env, name) == env[name] \notin {"unset", ""}

\* d[key] = value
DictSet(d, key, value) ==
    [k \in DOMAIN d \cup {key} |-> IF k = key THEN value ELSE d[k]]

EmptyDict == [k \in {} |-> ""]

\* the loop over db_config.items(), the first n entries:
\* <<"ok" or "ValueError", processed_db_config>>
RECURSIVE process_database(_, _, _)
process_database(db_config, env, n) ==
    IF n = 0 THEN <<"ok", EmptyDict>>
    ELSE LET prev == process_database(db_config, env, n - 1)
             db_key == db_config[n][1]
             db_value == db_config[n][2]
         IN  IF prev[1] # "ok" THEN prev
             ELSE IF endswith_env(db_key)
             THEN IF is_set(env, db_value)
                  THEN <<"ok", DictSet(prev[2], strip_env(db_key), env[db_value])>>
                  ELSE <<"ValueError", prev[2]>>
             ELSE <<"ok", DictSet(prev[2], db_key, db_value)>>

\* the loop over api_keys_config.items(): processed_api_keys
RECURSIVE process_api_keys(_, _, _)
process_api_keys(api_keys_config, env, n) ==
    IF n = 0 THEN EmptyDict
    ELSE LET key_name == api_keys_config[n][1]
             env_var_name == api_keys_config[n][2]
         IN  DictSet(process_api_keys(api_keys_config, env, n - 1), key_name,
                     IF is_set(env, env_var_name) THEN env[env_var_name] ELSE None)

load_config(raw, env) ==
    LET db == process_database(raw[1], env, Len(raw[1]))
    IN  IF db[1] = "ok"
        THEN <<"ok", db[2], process_api_keys(raw[2], env, Len(raw[2]))>>
        ELSE <<"ValueError", EmptyDict, EmptyDict>>

call_load_config(raw, env) ==
    /\ cfg_pc = "idle"
    /\ raw_config' = raw
    /\ environ' = env
    /\ cfg_result' = load_config(raw, env)
    /\ cfg_pc' = "done"
    /\ UNCHANGED NotCfg

\* the module loads its configuration once, on import
CfgNext ==
    /\ cfg_pc = "idle"
    /\ \E database \in Sections(DbKeys), api_keys \in Sections(ApiKeyNames),
          env \in [EnvVarNames -> EnvValues] :
           call_load_config(<<database, api_keys>>, env)

CfgInit ==
    /\ cfg_pc = "idle"
    /\ raw_config = <<(<<>>), (<<>>)>>
    /\ environ = [n \in EnvVarNames |-> "unset"]
    /\ cfg_result = <<"not loaded", EmptyDict, EmptyDict>>

CfgDb == raw_config[1]
CfgApi == raw_config[2]
CfgMissing(name) == environ[name] = "unset" \/ environ[name] = ""
CfgEnvKey(k) == k[Len(k)] = "_env"

\* the parts of C13 on which claim and code agree: ValueError exactly when a
\* database entry with a key ending in '_env' names a missing variable; a
\* missing variable behind an api_keys entry gives the value None
C13_ErrorsAndApiKeys ==
    /\ cfg_result[1] = "ValueError"
          <=> \E n \in 1 .. Len(CfgDb) : CfgEnvKey(CfgDb[n][1]) /\ CfgMissing(CfgDb[n][2])
    /\ cfg_result[1] \in {"ok", "ValueError"}
    /\ cfg_result[1] = "ok" =>
          /\ DOMAIN cfg_result[3] = {CfgApi[n][1] : n \in 1 .. Len(CfgApi)}
          /\ \A n \in 1 .. Len(CfgApi) :
                cfg_result[3][CfgApi[n][1]] =
                    (IF CfgMissing(CfgApi[n][2]) THEN None ELSE environ[CfgApi[n][2]])

\* C13 as claimed: a missing variable aborts with ValueError only for
\* database entries whose key ends in '_env', a missing variable behind an
\* api_keys entry stores None, and on success no key of the resulting
\* database section ends in '_env'.
C13_NoEnvKeyLeft ==
    cfg_pc = "done" =>
        /\ C13_ErrorsAndApiKeys
        /\ cfg_result[1] = "ok" => \A k \in DOMAIN cfg_result[2] : ~CfgEnvKey(k)

\* C13 as the code has it: the same, but on success each database entry
\* whose key ends in '_env' is stored under the key without that one suffix
\* (and the other entries under their own key), so a stored key ends in
\* '_env' exactly when a configured key ended in '_env_env'.
C13_OneSuffixRemoved ==
    cfg_pc = "done" =>
        /\ C13_ErrorsAndApiKeys
        /\ cfg_result[1] = "ok" =>
              /\ DOMAIN cfg_result[2] =
                    {IF CfgEnvKey(CfgDb[n][1])
                     THEN SubSeq(CfgDb[n][1], 1, Len(CfgDb[n][1]) - 1)
                     ELSE CfgDb[n][1] : n \in 1 .. Len(CfgDb)}
              /\ (\E k \in DOMAIN cfg_result[2] : CfgEnvKey(k))
                    <=> \E n \in 1 .. Len(CfgDb) :
                           /\ Len(CfgDb[n][1]) >= 3
                           /\ CfgEnvKey(CfgDb[n][1])

\* loading succeeded with a database key of two suffixes and with an
\* api_keys entry whose variable is missing
C13_Witness ==
    /\ cfg_pc = "done" /\ cfg_result[1] = "ok"
    /\ \E n \in 1 .. Len(CfgDb) : CfgDb[n][1] = <<"user", "_env", "_env">>
    /\ \E n \in 1 .. Len(CfgApi) : CfgMissing(CfgApi[n][2])
    /\ <<"user", "_env">> \in DOMAIN cfg_result[2]

----------------------------------------------------------------------------
(* collect_and_save_financials_alphavantage (api collector)                *)

\* time.sleep(15) at the end of the loop body
ApiRateLimitSleep == 15

\* What one pass of the loop meets:
\*   "reports"           reports parsed, saved to the database and to CSV
\*   "db error"          session.execute or commit fails: rollback, handled
\*   "Error Message"     the body has "Error Message": continue
\*   "Note"              the body has "Note" (the rate limit notice): continue
\*   "no reports"        neither quarterly nor annual reports: continue
\*   "RequestException"  requests.get or raise_for_status raises
\*   "Exception"         anything else raised in the body (get_db_session,
\*                       to_csv, ...): caught outside the loop
ApifinOutcomes ==
    {"reports", "db error", "Error Message", "Note", "no reports",
     "RequestException", "Exception"}

\* what follows the request in the loop body
after_request(outcome) ==
    CASE outcome \in {"Error Message", "Note", "no reports"} -> "continue"
      [] outcome \in {"RequestException", "Exception"} -> "raise"
      [] OTHER -> "sleep"

\* for stmt_type, url in urls.items(): the next pass, or the end
ApifinNextPass ==
    IF apifin_idx < Len(StatementTypes)
    THEN apifin_idx' = apifin_idx + 1 /\ apifin_pc' = "request"
    ELSE apifin_pc' = "done" /\ UNCHANGED apifin_idx

apifin_main(api_key) ==
    /\ apifin_pc = "idle"
    /\ apifin_trace' = <<>>
    /\ apifin_idx' = 1
    /\ apifin_pc' = IF api_key = "" THEN "done" ELSE "request"
    /\ UNCHANGED apifin_saved
    /\ UNCHANGED NotApifin

apifin_request(outcome) ==
    /\ apifin_pc = "request"
    /\ apifin_trace' = Append(apifin_trace,
                              <<"request", StatementTypes[apifin_idx], outcome>>)
    /\ apifin_saved' = IF outcome = "reports"
                       THEN apifin_saved \cup {StatementTypes[apifin_idx]}
                       ELSE apifin_saved
    /\ CASE after_request(outcome) = "continue" -> ApifinNextPass
         [] after_request(outcome) = "raise" ->
                apifin_pc' = "done" /\ UNCHANGED apifin_idx
         [] OTHER -> apifin_pc' = "sleep" /\ UNCHANGED apifin_idx
    /\ UNCHANGED NotApifin

apifin_sleep ==
    /\ apifin_pc = "sleep"
    /\ apifin_trace' = Append(apifin_trace,
                              <<"sleep", StatementTypes[apifin_idx], ApiRateLimitSleep>>)
    /\ ApifinNextPass
    /\ UNCHANGED apifin_saved
    /\ UNCHANGED NotApifin

ApifinNext ==
    \/ \E api_key \in {"", "key"} : apifin_main(api_key)
    \/ \E outcome \in ApifinOutcomes : apifin_request(outcome)
    \/ apifin_sleep

ApifinInit ==
    /\ apifin_pc = "idle"
    /\ apifin_idx = 1
    /\ apifin_trace = <<>>
    /\ apifin_saved = {}

\* C15: in the api collector's collect_and_save_financials_alphavantage a
\* 15-second sleep separates every pair of consecutive statement requests,
\* whatever the outcome of the earlier request.
C15_SleepBetweenRequests ==
    \A j \in 1 .. Len(apifin_trace) - 1 :
        apifin_trace[j][1] = "request" =>
            /\ apifin_trace[j + 1][1] = "sleep"
            /\ apifin_trace[j + 1][3] = 15

----------------------------------------------------------------------------
(* NewsAnalyzer.run_analysis (api news analyzer)                           *)

\* the most ticker_sentiment entries in the data frame
MaxMentions == 2

\* the most articles a search returns
MaxFound == 2

\* top_n_tickers
TopNTickers == 5

KnownLabels == {"Bullish", "Somewhat-Bullish", "Neutral", "Somewhat-Bearish", "Bearish"}

\* ticker_sentiment entries <<ticker, score, label>> of the upstream API;
\* scores are in hundredths (20 is 0.20); "Positive" is no known label
TickerSentiments ==
    {<<"AAPL", 20, "Bullish">>, <<"AAPL", 50, "Neutral">>,
     <<"MSFT", 20, "Bullish">>, <<"AAPL", 20, "Positive">>}

\* one object of the LLM's JSON array: <<sentiment_label, sentiment_score>>
LlmObjects == {<<"Bullish", 40>>, <<"Positive", -60>>}

\* an article of the search is <<label, has_score, score>>; label "missing"
\* and has_score FALSE until the LLM's object is merged into it
SearchedArticle == <<"missing", FALSE, 0>>

\* what the LLM step meets: <<"error", <<>>>> no model, a failed call or text
\* that is no JSON; <<"json", objects>> the parsed array
LlmOutcomes(n) ==
    {<<"error", <<>>>>} \cup ({"json"} \X SeqsUpTo(LlmObjects, n))

RECURSIVE SumSeq(_)
SumSeq(seq) == IF seq = <<>> THEN 0 ELSE seq[1] + SumSeq(Tail(seq))

InitialDistribution == [l \in KnownLabels |-> 0]

\* d[label] += 1 of the first loop: KeyError for a label that is no key of d
increment_label(d, label) ==
    IF label \in DOMAIN d
    THEN <<"ok", [d EXCEPT ![label] = @ + 1]>>
    ELSE <<"KeyError", d>>

\* the same increment in the augmentation loop
count_label_strict(d, label) ==
    IF label \in DOMAIN d
    THEN <<"ok", [d EXCEPT ![label] = @ + 1]>>
    ELSE <<"KeyError", d>>

\* d[label] = d.get(label, 0) + 1
count_label(d, label) ==
    <<"ok", [l \in DOMAIN d \cup {label} |->
                IF l = label THEN (IF l \in DOMAIN d THEN d[l] ELSE 0) + 1 ELSE d[l]]>>

\* leaves mentions as it is
mentions_kept(mentions) == mentions

\* data['mentions'] += 1
mentions_plus_one(mentions) == mentions + 1

\* sum(scores) / len(scores), kept as the fraction <<sum, len>>; 0 for no score
average(scores) == IF scores = <<>> THEN <<0, 1>> ELSE <<SumSeq(scores), Len(scores)>>

\* _get_sentiment_label of the fraction, the thresholds in hundredths
get_sentiment_label(avg) ==
    IF avg[1] >= 35 * avg[2] THEN "Bullish"
    ELSE IF avg[1] >= 15 * avg[2] THEN "Somewhat-Bullish"
    ELSE IF avg[1] < -35 * avg[2] THEN "Bearish"
    ELSE IF avg[1] < -15 * avg[2] THEN "Somewhat-Bearish"
    ELSE "Neutral"

\* the loop over the exploded rows, the first n of them:
\* <<"ok" or "KeyError", all_ticker_data, tickers in insertion order>>
RECURSIVE collect_ticker_data(_, _)
collect_ticker_data(rows, n) ==
    IF n = 0 THEN <<"ok", [t \in {} |-> <<>>], <<>>>>
    ELSE LET prev == collect_ticker_data(rows, n - 1)
             ticker == rows[n][1]
             known == ticker \in DOMAIN prev[2]
             old == IF known THEN prev[2][ticker]
                    ELSE [mentions |-> 0, scores |-> <<>>, dist |-> InitialDistribution]
             counted == increment_label(old.dist, rows[n][3])
             new == [mentions |-> old.mentions + 1,
                     scores |-> Append(old.scores, rows[n][2]),
                     dist |-> counted[2]]
         IN  IF prev[1] # "ok" \/ ticker = "" THEN prev
             ELSE <<counted[1],
                    [t \in DOMAIN prev[2] \cup {ticker} |->
                        IF t = ticker THEN new ELSE prev[2][t]],
                    IF known THEN prev[3] ELSE Append(prev[3], ticker)>>

\* sorted(..., key=mentions, reverse=True): stable, most mentions first
RECURSIVE sorted_by_mentions(_, _)
sorted_by_mentions(tickers, data) ==
    IF tickers = <<>> THEN <<>>
    ELSE LET rest == sorted_by_mentions(SubSeq(tickers, 1, Len(tickers) - 1), data)
             t == tickers[Len(tickers)]
             before == SelectSeq(rest, LAMBDA u : data[u].mentions >= data[t].mentions)
             after == SelectSeq(rest, LAMBDA u : data[u].mentions < data[t].mentions)
         IN  before \o <<t>> \o after

\* _analyze_searched_news_with_llm: [] on an error, else the articles, the
\* i-th one updated with the i-th object while there is one
analyze_searched_news_with_llm(found, llm) ==
    IF found = 0 \/ llm[1] = "error" THEN <<>>
    ELSE [i \in 1 .. found |->
            IF i <= Len(llm[2]) THEN <<llm[2][i][1], TRUE, llm[2][i][2]>>
            ELSE SearchedArticle]

\* the loop over analyzed_articles, the first n of them:
\* <<"ok" or "KeyError", [mentions, scores, dist]>>
RECURSIVE count_articles(_, _, _)
count_articles(data, analyzed, n) ==
    IF n = 0 THEN <<"ok", data>>
    ELSE LET prev == count_articles(data, analyzed, n - 1)
             article == analyzed[n]
             label == IF article[1] = "missing" THEN "Neutral" ELSE article[1]
             score == IF article[2] THEN article[3] ELSE 0
             counted == count_label(prev[2].dist, label)
         IN  IF prev[1] # "ok" THEN prev
             ELSE <<counted[1],
                    [mentions |-> mentions_plus_one(prev[2].mentions),
                     scores |-> Append(prev[2].scores, score),
                     dist |-> counted[2]]>>

\* an entry of top_ticker_sentiment_results
ResultEntry(data) ==
    [mentions |-> data.mentions,
     average_sentiment_score |-> average(data.scores),
     overall_sentiment_label |-> get_sentiment_label(average(data.scores)),
     sentiment_distribution |-> data.dist]

NoTickers == [t \in {} |-> <<>>]

\* run_analysis up to the augmentation loop
run_analysis(rows, specific_tickers) ==
    /\ na_pc = "idle"
    /\ na_rows' = rows
    /\ na_i' = 1
    /\ na_news' = NoTickers
    /\ LET collected == collect_ticker_data(rows, Len(rows))
           data == collected[2]
           ranked == sorted_by_mentions(collected[3], data)
           target_tickers ==
               IF specific_tickers # <<>> THEN specific_tickers
               ELSE SubSeq(ranked, 1, IF Len(ranked) < TopNTickers THEN Len(ranked)
                                      ELSE TopNTickers)
           targets == SelectSeq(target_tickers, LAMBDA t : t \in DOMAIN data)
       IN  IF collected[1] # "ok"
           THEN /\ na_error' = collected[1]
                /\ na_pc' = "returned"
                /\ all_ticker_data' = NoTickers
                /\ na_targets' = <<>>
                /\ na_result' = NoTickers
           ELSE /\ na_error' = ""
                /\ all_ticker_data' = data
                /\ na_targets' = targets
                /\ na_result' = [t \in {targets[j] : j \in 1 .. Len(targets)} |->
                                    ResultEntry(data[t])]
                /\ na_pc' = IF targets = <<>> THEN "returned" ELSE "augment"
    /\ UNCHANGED NotNa

\* one pass of the augmentation loop: found articles come from the search,
\* llm is what the LLM step meets
augment_ticker(found, llm) ==
    /\ na_pc = "augment"
    /\ LET ticker == na_targets[na_i]
           analyzed == analyze_searched_news_with_llm(found, llm)
           start == [mentions |-> na_result[ticker].mentions,
                     scores |-> all_ticker_data[ticker].scores,
                     dist |-> na_result[ticker].sentiment_distribution]
           counted == count_articles(start, analyzed, Len(analyzed))
       IN  /\ na_news' = [t \in DOMAIN na_news \cup {ticker} |->
                             IF t = ticker THEN analyzed ELSE na_news[t]]
           /\ IF analyzed = <<>>
              THEN UNCHANGED <<na_result, all_ticker_data, na_error>>
              ELSE IF counted[1] # "ok"
              THEN /\ na_error' = counted[1]
                   /\ UNCHANGED <<na_result, all_ticker_data>>
              ELSE /\ na_result' = [na_result EXCEPT ![ticker] = ResultEntry(counted[2])]
                   /\ all_ticker_data' =
                         [all_ticker_data EXCEPT ![ticker].scores = counted[2].scores]
                   /\ UNCHANGED na_error
           /\ IF na_error' # "" \/ na_i = Len(na_targets)
              THEN na_pc' = "returned" /\ UNCHANGED na_i
              ELSE na_i' = na_i + 1 /\ UNCHANGED na_pc
    /\ UNCHANGED <<na_rows, na_targets>>
    /\ UNCHANGED NotNa

NaNext ==
    \/ /\ na_pc = "idle"
       /\ \E rows \in SeqsUpTo(TickerSentiments, MaxMentions),
             specific_tickers \in {<<>>, <<"MSFT">>} :
              run_analysis(rows, specific_tickers)
    \/ \E found \in 0 .. MaxFound :
          \E llm \in LlmOutcomes(found) : augment_ticker(found, llm)

NaInit ==
    /\ na_pc = "idle"
    /\ na_rows = <<>>
    /\ all_ticker_data = NoTickers
    /\ na_targets = <<>>
    /\ na_i = 1
    /\ na_result = NoTickers
    /\ na_news = NoTickers
    /\ na_error = ""

\* the label under which an article of the LLM step is counted
NaLabel(article) == IF article[1] = "missing" THEN "Neutral" ELSE article[1]

NaArticlesWith(t, label) ==
    Cardinality({n \in 1 .. Len(na_news[t]) : NaLabel(na_news[t][n]) = label})

\* C17: run_analysis is robust against any sentiment_label string the LLM
\* returns: a label outside the five known ones is counted under its own key
\* in the ticker's sentiment_distribution, and the analysis completes without
\* raising.
C17_AnyLlmLabelCounted ==
    \* no exception once the augmentation has begun
    /\ na_error # "" => DOMAIN na_news = {}
    /\ \A t \in DOMAIN na_news :
          \A n \in 1 .. Len(na_news[t]) :
              LET label == NaLabel(na_news[t][n])
                  dist == na_result[t].sentiment_distribution
              IN  label \notin KnownLabels =>
                      /\ label \in DOMAIN dist
                      /\ dist[label] = NaArticlesWith(t, label)

\* the run is over without exception; the LLM labelled two articles of a
\* ticker "Positive"
C17_Witness ==
    /\ na_pc = "returned" /\ na_error = ""
    /\ \E t \in DOMAIN na_news :
          /\ NaArticlesWith(t, "Positive") = 2
          /\ na_result[t].sentiment_distribution["Positive"] = 2

RECURSIVE SumCounts(_, _)
SumCounts(d, keys) ==
    IF keys = {} THEN 0
    ELSE LET k == CHOOSE x \in keys : TRUE
         IN  d[k] + SumCounts(d, keys \ {k})

\* the scores of the data frame's entries for ticker t
NaRowScores(t) ==
    LET mine == SelectSeq(na_rows, LAMBDA r : r[1] = t)
    IN  [n \in 1 .. Len(mine) |-> mine[n][2]]

\* the scores of the articles the LLM step returned for ticker t (0.0 for an
\* article without a score)
NaNewsScores(t) ==
    IF t \in DOMAIN na_news
    THEN [n \in 1 .. Len(na_news[t]) |->
             IF na_news[t][n][2] THEN na_news[t][n][3] ELSE 0]
    ELSE <<>>

\* C19: in every ticker entry of the result of run_analysis, mentions equals
\* the sum of the counts in sentiment_distribution and
\* average_sentiment_score is the mean of exactly that many scores, before
\* any LLM augmentation and after it.
C19_MentionsMatchDistributionAndMean ==
    \A t \in DOMAIN na_result :
        LET e == na_result[t]
        IN  /\ e.mentions =
                  SumCounts(e.sentiment_distribution, DOMAIN e.sentiment_distribution)
            /\ e.mentions = Len(NaRowScores(t)) + Len(NaNewsScores(t))
            /\ e.average_sentiment_score =
                  <<SumSeq(NaRowScores(t)) + SumSeq(NaNewsScores(t)), e.mentions>>

\* a ticker with two entries in the data frame was augmented with two
\* articles, one of them without an object of the LLM
C19_Witness ==
    /\ na_pc = "returned"
    /\ \E t \in DOMAIN na_news :
          /\ Len(na_news[t]) = 2
          /\ na_news[t][2] = SearchedArticle
          /\ na_result[t].mentions = 4

----------------------------------------------------------------------------
(* Specifications                                                          *)

Init == OhlcvInit /\ YfInit /\ FredInit /\ FinInit /\ ApiInit /\ WbInit /\ NewsInit /\ BsmInit
        /\ CfgInit /\ ApifinInit /\ NaInit

SpecOhlcv == Init /\ [][OhlcvCall]_vars

SpecYf == Init /\ [][YfNext]_vars

SpecFred == Init /\ [][FredCall]_vars

SpecFin == Init /\ [][FinNext]_vars

\* the interpreter keeps running the call: a step that can be taken is taken
SpecApi == Init /\ [][ApiNext]_vars /\ WF_vars(ApiNext)

SpecWb == Init /\ [][WbNext]_vars

SpecNews == Init /\ [][NewsNext]_vars

SpecBsm == Init /\ [][BsmNext]_vars

SpecCfg == Init /\ [][CfgNext]_vars

SpecApifin == Init /\ [][ApifinNext]_vars

SpecNa == Init /\ [][NaNext]_vars

====
